---- MODULE Spec2Model ----
(***************************************************************************)
(* Model of portfolio_chatbot.py: the Streamlit script main() that is run  *)
(* once per interaction against a per-session st.session_state, the        *)
(* knowledge document it loads on every run, the system prompt it builds   *)
(* and the blocking completion call it issues for a user turn.             *)
(*                                                                         *)
(* Encoding of Python values:                                              *)
(*   None            the string NoneVal; an f-string renders it "None"     *)
(*   a JSON object   a record with a field "keys" (the keys present) and   *)
(*                   one field per key the program reads; dict.get(k)      *)
(*                   yields None for a key that is not present             *)
(*   an optional dict (the local selected_project of get_ai_response)      *)
(*                   <<>> for None, <<d>> for the dict d                   *)
(*   a text          a TLA+ string; a skills category, whose characters    *)
(*                   format_skills rewrites, is a sequence of characters   *)
(*   a prompt        the sequence of its non-blank lines, each line a      *)
(*                   record of its fixed text (fmt, with {} where a value  *)
(*                   is interpolated) and the values interpolated (vals)   *)
(***************************************************************************)
EXTENDS Integers, Sequences, FiniteSets, TLC

VARIABLES
    doc,               \* data/portfolio_knowledge.json on disk
    session_keys,      \* the keys present in st.session_state
    chat_history,      \* st.session_state.chat_history
    selected_project,  \* st.session_state.selected_project
    pc,                \* position of the session's script run
    main_portfolio,    \* main's local portfolio while the run is in the call
    user_input,        \* main's local user_input of the turn in progress
    reply,             \* main's local reply of the last completed turn
    requests,          \* completion requests issued and not yet answered
    focus_project,     \* get_ai_response's local selected_project (during the call)
    run_result,        \* how the last script run ended
    clock,             \* datetime.now()
    hist_before,       \* history: chat_history when the last turn began
    prev_selected,     \* history: the selection line 146 overwrote in the turn in progress
    turns_ok,          \* history: turns whose completion call returned
    turns_failed       \* history: turns whose completion call raised

vars == <<doc, session_keys, chat_history, selected_project, pc,
          main_portfolio, user_input,
          reply, requests, focus_project, run_result, clock, hist_before,
          prev_selected, turns_ok, turns_failed>>

\* ------------------------------------------------------------- bounds
\* chat_history never grows past MaxHistory messages in the model.
MaxHistory == 6

\* ------------------------------------------------------------- values
NoneVal == "<None>"
NO_PROJECT_SELECTED == "-- No Project Selected --"

Range(s) == {s[i] : i \in 1..Len(s)}

\* f"{v}" of a text or None.
Str(v) == IF v = NoneVal THEN "None" ELSE v

\* d.get(k) for the text-valued keys.
Get(d, k) == IF k \in d.keys THEN d[k] ELSE NoneVal

\* portfolio.get("projects", []) and portfolio.get("skills", {}).
GetProjects(d) == IF "projects" \in d.keys THEN d.projects ELSE <<>>
GetSkills(d) == IF "skills" \in d.keys THEN d.skills ELSE <<>>

\* Python truthiness of a dict, of a text or None, of an optional dict.
TruthyDict(d) == d.keys # {}
TruthyText(v) == v # NoneVal /\ v # ""
TruthyOpt(o) == o # <<>> /\ TruthyDict(o[1])

EmptyDict ==
    [keys |-> {}, name |-> NoneVal, summary |-> NoneVal, education |-> NoneVal,
     current_status |-> NoneVal, goal |-> NoneVal, skills |-> <<>>,
     projects |-> <<>>]

\* ------------------------------------------------- knowledge documents
ProjectKeys == {"name", "type", "category", "problem", "solution", "tools", "outcome"}

ProjectX ==
    [keys |-> ProjectKeys, name |-> "X", type |-> "web", category |-> "apps",
     problem |-> "X-problem", solution |-> "X-solution", tools |-> "X-tools",
     outcome |-> "X-outcome"]

ProjectZ ==
    [keys |-> ProjectKeys \ {"category"}, name |-> "Z", type |-> "ml",
     category |-> NoneVal, problem |-> "Z-problem", solution |-> "Z-solution",
     tools |-> "Z-tools", outcome |-> "Z-outcome"]

SkillsA ==
    << << <<"a", "_", "b">>, <<"python", "sql">> >>,
       << <<"A", "_", "B">>, <<"excel">> >> >>

ProfileFull ==
    [keys |-> {"name", "summary", "education", "current_status", "goal",
               "skills", "projects"},
     name |-> "A", summary |-> "A-summary", education |-> "A-education",
     current_status |-> "A-status", goal |-> "A-goal", skills |-> SkillsA,
     projects |-> <<ProjectX, ProjectZ>>]

ProfileSmall ==
    [keys |-> {"name", "projects"},
     name |-> "A", summary |-> NoneVal, education |-> NoneVal,
     current_status |-> NoneVal, goal |-> NoneVal, skills |-> <<>>,
     projects |-> <<ProjectZ>>]

\* The states of the file: absent, not JSON, the JSON object {}, a profile.
DocAbsent == [exists |-> FALSE, parses |-> FALSE, content |-> EmptyDict]
DocMalformed == [exists |-> TRUE, parses |-> FALSE, content |-> EmptyDict]
DocEmpty == [exists |-> TRUE, parses |-> TRUE, content |-> EmptyDict]
DocFull == [exists |-> TRUE, parses |-> TRUE, content |-> ProfileFull]
DocSmall == [exists |-> TRUE, parses |-> TRUE, content |-> ProfileSmall]
Documents == {DocAbsent, DocMalformed, DocEmpty, DocFull, DocSmall}

\* What the user types and what the completion service answers; the service
\* may answer with the empty text.
UserTexts == {"q1", "q2"}
ReplyTexts == {"", "r1"}

\* ------------------------------------------------------ load_portfolio
\* Mutant: a missing file yields a default profile instead of no profile.
load_portfolio_default(d) ==
    IF ~d.exists THEN [raised |-> FALSE, error |-> TRUE, value |-> ProfileSmall]
    ELSE IF ~d.parses THEN [raised |-> TRUE, error |-> FALSE, value |-> EmptyDict]
    ELSE [raised |-> FALSE, error |-> FALSE, value |-> d.content]

\* raised: json.load raised; error: st.error was shown; value: the result.
load_portfolio(d) ==
    IF ~d.exists THEN [raised |-> FALSE, error |-> TRUE, value |-> EmptyDict]
    ELSE IF ~d.parses THEN [raised |-> TRUE, error |-> FALSE, value |-> EmptyDict]
    ELSE [raised |-> FALSE, error |-> FALSE, value |-> d.content]

\* ------------------------------------------------------- format_skills
IsLower(c) == c \in {"a", "b"}
IsUpper(c) == c \in {"A", "B"}
Upper(c) == CASE c = "a" -> "A" [] c = "b" -> "B" [] OTHER -> c
Lower(c) == CASE c = "A" -> "a" [] c = "B" -> "b" [] OTHER -> c

\* str.replace('_', ' ')
ReplaceUnderscore(s) == [i \in 1..Len(s) |-> IF s[i] = "_" THEN " " ELSE s[i]]

\* str.title(): a cased character is upper after an uncased one (or at the
\* start) and lower after a cased one.
Title(s) ==
    [i \in 1..Len(s) |->
        IF i > 1 /\ (IsLower(s[i - 1]) \/ IsUpper(s[i - 1]))
        THEN Lower(s[i]) ELSE Upper(s[i])]

RECURSIVE Join(_, _)
Join(sep, parts) ==
    IF Len(parts) = 0 THEN <<>>
    ELSE IF Len(parts) = 1 THEN <<parts[1]>>
    ELSE <<parts[1], sep>> \o Join(sep, Tail(parts))

\* One line per category, in the mapping's own order.
format_skills(skills_dict) ==
    [i \in 1..Len(skills_dict) |->
        [fmt |-> "{}: {}",
         vals |-> <<Title(ReplaceUnderscore(skills_dict[i][1])),
                    Join(", ", skills_dict[i][2])>>]]

\* ------------------------------------------------ create_system_prompt
Line(f, v) == [fmt |-> f, vals |-> v]

BasePrompt(portfolio) ==
    << Line("You are an AI Portfolio Assistant representing {}.",
            <<Str(Get(portfolio, "name"))>>),
       Line("Profile Summary:", <<>>),
       Line("{}", <<Str(Get(portfolio, "summary"))>>),
       Line("Education: {}", <<Str(Get(portfolio, "education"))>>),
       Line("Current Status: {}", <<Str(Get(portfolio, "current_status"))>>),
       Line("Career Goal: {}", <<Str(Get(portfolio, "goal"))>>),
       Line("Skills:", <<>>) >>
    \o format_skills(GetSkills(portfolio))
    \o << Line("Rules:", <<>>),
          Line("- Answer like a real interview candidate", <<>>),
          Line("- Be confident, clear, and honest", <<>>),
          Line("- Do NOT invent information", <<>>),
          Line("- Use simple English or Hinglish", <<>>) >>

\* The block of lines 61-84.
DetailBlock(p) ==
    << Line("Selected Project (Explain in detail):", <<>>),
       Line("Project Name: {}", <<Str(Get(p, "name"))>>),
       Line("Type: {}", <<Str(Get(p, "type"))>>),
       Line("Category: {}", <<Str(Get(p, "category"))>>),
       Line("Problem:", <<>>),
       Line("{}", <<Str(Get(p, "problem"))>>),
       Line("Solution:", <<>>),
       Line("{}", <<Str(Get(p, "solution"))>>),
       Line("Tools Used:", <<>>),
       Line("{}", <<Str(Get(p, "tools"))>>),
       Line("Outcome:", <<>>),
       Line("{}", <<Str(Get(p, "outcome"))>>),
       Line("Instructions:", <<>>),
       Line("- Use STAR method if possible", <<>>),
       Line("- Explain business impact", <<>>),
       Line("- Answer follow-up technical questions", <<>>) >>

\* project_list of lines 86-88.
ProjectList(portfolio) ==
    [i \in 1..Len(GetProjects(portfolio)) |->
        Line("- {} ({})", <<Str(Get(GetProjects(portfolio)[i], "name")),
                            Str(Get(GetProjects(portfolio)[i], "type"))>>)]

\* The block of lines 89-96.
ListBlock(portfolio) ==
    << Line("Projects:", <<>>) >>
    \o ProjectList(portfolio)
    \o << Line("Instructions:", <<>>),
          Line("- Answer about skills, projects, resume, career goals", <<>>),
          Line("- Suggest selecting a project for deep explanation", <<>>) >>

\* Mutant: the project list is appended in the focused mode too.
create_system_prompt_both(portfolio, selected) ==
    IF TruthyOpt(selected)
    THEN BasePrompt(portfolio) \o DetailBlock(selected[1]) \o ListBlock(portfolio)
    ELSE BasePrompt(portfolio) \o ListBlock(portfolio)

create_system_prompt(portfolio, selected) ==
    IF TruthyOpt(selected)
    THEN BasePrompt(portfolio) \o DetailBlock(selected[1])
    ELSE BasePrompt(portfolio) \o ListBlock(portfolio)

\* ----------------------------------------------------- get_ai_response
\* Lines 104-107: the first project whose name equals the stored selection.
RECURSIVE FirstNamed(_, _)
FirstNamed(projects, name) ==
    IF Len(projects) = 0 THEN <<>>
    ELSE IF Get(projects[1], "name") = name THEN <<projects[1]>>
    ELSE FirstNamed(Tail(projects), name)

\* Mutant: a name that matches nothing falls back to the first project.
ResolveFocusFallback(stored, portfolio) ==
    IF TruthyText(stored) /\ FirstNamed(GetProjects(portfolio), stored) # <<>>
    THEN FirstNamed(GetProjects(portfolio), stored)
    ELSE IF TruthyText(stored) /\ Len(GetProjects(portfolio)) > 0
    THEN <<GetProjects(portfolio)[1]>>
    ELSE <<>>

\* Lines 101-107, given st.session_state.get("selected_project").
ResolveFocus(stored, portfolio) ==
    IF TruthyText(stored) THEN FirstNamed(GetProjects(portfolio), stored)
    ELSE <<>>

\* Lines 111-112: role and content of each message, the time dropped.
RoleContent(history) ==
    [i \in 1..Len(history) |->
        [role |-> history[i].role, content |-> history[i].content]]

\* Lines 109-114: the input of client.responses.create.
BuildMessages(user_message, history, portfolio, focus) ==
    << [role |-> "system", content |-> create_system_prompt(portfolio, focus)] >>
    \o RoleContent(history)
    \o << [role |-> "user", content |-> user_message] >>

\* ------------------------------------------------------------- main
AllSessionKeys == {"chat_history", "selected_project"}

\* Mutant: every run starts from an empty history.
InitHistoryReset(keys, history) == <<>>

\* Lines 133-134: the history main works on.
InitHistory(keys, history) ==
    IF "chat_history" \in keys THEN history ELSE <<>>

\* Lines 136-137: the selection before line 146 overwrites it.
InitSelected(keys, stored) ==
    IF "selected_project" \in keys THEN stored ELSE NoneVal

\* Line 139.
ProjectNames(portfolio) ==
    [i \in 1..Len(GetProjects(portfolio)) |-> Get(GetProjects(portfolio)[i], "name")]

\* Lines 141-144: st.selectbox returns one of its options.
SelectboxOptions(portfolio) ==
    Range(<<NO_PROJECT_SELECTED>> \o ProjectNames(portfolio))

\* The focus names a host may pass when it is not bound to the options of
\* the selectbox: the options and a name that no project carries.
HostFocusNames(portfolio) == SelectboxOptions(portfolio) \cup {"Y"}

\* Line 146.
StoreSelection(selected) ==
    IF selected = NO_PROJECT_SELECTED THEN NoneVal ELSE selected

\* Mutant: the user message is appended twice.
AppendUserTwice(history, text, now) ==
    Append(Append(history, [role |-> "user", content |-> text, time |-> now]),
           [role |-> "user", content |-> text, time |-> now])

\* Lines 160-164.
AppendUser(history, text, now) ==
    Append(history, [role |-> "user", content |-> text, time |-> now])

\* Mutant: the whole history, the new user message included, is passed on.
PriorHistoryWhole(history) == history

\* Line 168: chat_history[:-1].
PriorHistory(history) == SubSeq(history, 1, Len(history) - 1)

\* Mutant: the reply is stored under the role of the user.
AppendAssistantAsUser(history, text, now) ==
    Append(history, [role |-> "user", content |-> text, time |-> now])

\* Mutant: the reply replaces the last message instead of following it.
AppendAssistantOverLast(history, text, now) ==
    Append(SubSeq(history, 1, Len(history) - 1),
           [role |-> "assistant", content |-> text, time |-> now])

\* Lines 172-176.
AppendAssistant(history, text, now) ==
    Append(history, [role |-> "assistant", content |-> text, time |-> now])

\* Mutant: a run starts while the previous one is still in the call.
ScriptIdleOrCalling == pc \in {"idle", "calling"}

\* The script runs of one session are sequential: a run starts only when the
\* previous one has ended, and line 166 blocks until the call has returned.
ScriptIdle == pc = "idle"

Init ==
    /\ doc \in Documents
    /\ session_keys = {}
    /\ chat_history = <<>>
    /\ selected_project = NoneVal
    /\ pc = "idle"
    /\ main_portfolio = EmptyDict
    /\ user_input = NoneVal
    /\ reply = NoneVal
    /\ requests = <<>>
    /\ focus_project = <<>>
    /\ run_result = "none"
    /\ clock = 0
    /\ hist_before = <<>>
    /\ prev_selected = NoneVal
    /\ turns_ok = 0
    /\ turns_failed = 0

\* The file is written, replaced or removed outside the program.
EditDocument ==
    /\ \E d \in Documents \ {doc} : doc' = d
    /\ UNCHANGED <<session_keys, chat_history, selected_project, pc,
                   main_portfolio, user_input,
                   reply, requests, focus_project, run_result, clock,
                   hist_before, prev_selected, turns_ok, turns_failed>>

\* Lines 129 and 28-29: json.load raises and the run ends with the exception.
MainLoadRaises ==
    /\ ScriptIdle
    /\ load_portfolio(doc).raised
    /\ run_result' = "load_exception"
    /\ UNCHANGED <<doc, session_keys, chat_history, selected_project, pc,
                   main_portfolio, user_input, reply, requests, focus_project, clock,
                   hist_before, prev_selected, turns_ok, turns_failed>>

\* Lines 129-131: no portfolio (the file is missing, or holds {}); return.
MainNoPortfolio ==
    /\ ScriptIdle
    /\ ~load_portfolio(doc).raised
    /\ ~TruthyDict(load_portfolio(doc).value)
    /\ run_result' = IF load_portfolio(doc).error THEN "load_error" ELSE "no_portfolio"
    /\ UNCHANGED <<doc, session_keys, chat_history, selected_project, pc,
                   main_portfolio, user_input, reply, requests, focus_project, clock,
                   hist_before, prev_selected, turns_ok, turns_failed>>

\* Lines 129-157 with st.chat_input returning None: the page is rendered.
MainRender(selected) ==
    /\ ScriptIdle
    /\ ~load_portfolio(doc).raised
    /\ TruthyDict(load_portfolio(doc).value)
    /\ session_keys' = AllSessionKeys
    /\ chat_history' = InitHistory(session_keys, chat_history)
    /\ selected_project' = StoreSelection(selected)
    /\ user_input' = NoneVal
    /\ reply' = NoneVal
    /\ run_result' = "rendered"
    /\ UNCHANGED <<doc, pc, main_portfolio, requests, focus_project, clock, hist_before,
                   prev_selected, turns_ok, turns_failed>>

\* Lines 129-166 with st.chat_input returning text: the user message is
\* appended and the completion request is issued; the run blocks in it.
MainSubmit(selected, text) ==
    /\ ScriptIdle
    /\ ~load_portfolio(doc).raised
    /\ TruthyDict(load_portfolio(doc).value)
    /\ Len(InitHistory(session_keys, chat_history)) + 2 <= MaxHistory
    /\ session_keys' = AllSessionKeys
    /\ prev_selected' = InitSelected(session_keys, selected_project)
    /\ selected_project' = StoreSelection(selected)
    /\ user_input' = text
    /\ reply' = NoneVal
    /\ hist_before' = InitHistory(session_keys, chat_history)
    /\ chat_history' = AppendUser(InitHistory(session_keys, chat_history), text, clock)
    /\ clock' = clock + 1
    /\ main_portfolio' = load_portfolio(doc).value
    /\ focus_project' = ResolveFocus(selected_project', main_portfolio')
    /\ requests' = Append(requests,
                          BuildMessages(text, PriorHistory(chat_history'),
                                        main_portfolio', focus_project'))
    /\ pc' = "calling"
    /\ UNCHANGED <<doc, run_result, turns_ok, turns_failed>>

\* Lines 116-123 and 172-178: the call returns output_text, the assistant
\* message is appended and st.rerun() ends the run.
CompletionReturns(text) ==
    /\ pc = "calling"
    /\ requests # <<>>
    /\ requests' = Tail(requests)
    /\ reply' = text
    /\ chat_history' = AppendAssistant(chat_history, text, clock)
    /\ clock' = clock + 1
    /\ run_result' = "rerun"
    /\ pc' = "idle"
    /\ turns_ok' = turns_ok + 1
    /\ main_portfolio' = EmptyDict
    /\ focus_project' = <<>>
    /\ prev_selected' = NoneVal
    /\ UNCHANGED <<doc, session_keys, selected_project, user_input,
                   hist_before, turns_failed>>

\* Lines 116-121: the call raises; nothing in main catches it, the run ends
\* with the exception and st.session_state stays as it is.
CompletionRaises ==
    /\ pc = "calling"
    /\ requests # <<>>
    /\ requests' = Tail(requests)
    /\ run_result' = "exception"
    /\ pc' = "idle"
    /\ turns_failed' = turns_failed + 1
    /\ main_portfolio' = EmptyDict
    /\ focus_project' = <<>>
    /\ prev_selected' = NoneVal
    /\ UNCHANGED <<doc, session_keys, chat_history, selected_project, user_input,
                   reply, clock, hist_before, turns_ok>>

Next ==
    \/ EditDocument
    \/ MainLoadRaises
    \/ MainNoPortfolio
    \/ \E selected \in SelectboxOptions(load_portfolio(doc).value) :
          MainRender(selected)
    \/ \E selected \in SelectboxOptions(load_portfolio(doc).value), text \in UserTexts :
          MainSubmit(selected, text)
    \/ \E text \in ReplyTexts : CompletionReturns(text)
    \/ CompletionRaises

Spec == Init /\ [][Next]_vars

\* The same program with the focus name supplied by a host that is not bound
\* to the options of the selectbox.
NextHost ==
    \/ EditDocument
    \/ MainLoadRaises
    \/ MainNoPortfolio
    \/ \E selected \in HostFocusNames(load_portfolio(doc).value) :
          MainRender(selected)
    \/ \E selected \in HostFocusNames(load_portfolio(doc).value), text \in UserTexts :
          MainSubmit(selected, text)
    \/ \E text \in ReplyTexts : CompletionReturns(text)
    \/ CompletionRaises

SpecHost == Init /\ [][NextHost]_vars

\* ------------------------------------------------------------ properties
IsPrefix(s, t) == Len(s) <= Len(t) /\ SubSeq(t, 1, Len(s)) = s

Last(s) == s[Len(s)]

\* t is s followed by one message of the given role and content.
Extends(s, t, role, content) ==
    /\ Len(t) = Len(s) + 1
    /\ IsPrefix(s, t)
    /\ Last(t).role = role
    /\ Last(t).content = content

\* The system prompt of the request in flight.
PromptInFlight == requests[1][1].content

ContainsLine(prompt, f, v) ==
    \E i \in 1..Len(prompt) : prompt[i].fmt = f /\ prompt[i].vals = v

IsBullet(l) == l.fmt = "- {} ({})"

\* The projects of the loaded portfolio that carry the stored selection.
Matches ==
    {i \in 1..Len(GetProjects(main_portfolio)) :
        Get(GetProjects(main_portfolio)[i], "name") = selected_project}

FirstMatch == GetProjects(main_portfolio)[CHOOSE i \in Matches : \A j \in Matches : i <= j]

DetailFields == {"problem", "solution", "tools", "outcome"}

\* C1: when a turn's completion call has returned, the history is the history
\* before the turn followed by exactly two messages: the user message with the
\* submitted text, then the assistant message with the returned reply.
C1_SuccessfulTurnAppendsUserThenAssistant ==
    (pc = "idle" /\ run_result = "rerun") =>
        /\ Len(chat_history) = Len(hist_before) + 2
        /\ SubSeq(chat_history, 1, Len(hist_before)) = hist_before
        /\ chat_history[Len(hist_before) + 1].role = "user"
        /\ chat_history[Len(hist_before) + 1].content = user_input
        /\ chat_history[Len(hist_before) + 2].role = "assistant"
        /\ chat_history[Len(hist_before) + 2].content = reply

C1_Witness ==
    /\ pc = "idle"
    /\ run_result = "rerun"
    /\ Len(hist_before) = 2
    /\ user_input = "q2"
    /\ reply = "r1"

\* C2: a turn whose completion call raised or returned the empty text ends in a
\* surfaced failure and appends no assistant message: the history is the
\* history before the turn plus at most the user message.
C2_FailedOrEmptyCompletionAppendsNoAssistant ==
    (pc = "idle" /\ (run_result = "exception" \/ (run_result = "rerun" /\ reply = ""))) =>
        /\ run_result = "exception"
        /\ Len(chat_history) <= Len(hist_before) + 1
        /\ IsPrefix(hist_before, chat_history)
        /\ \A i \in (Len(hist_before) + 1)..Len(chat_history) :
              chat_history[i].role = "user"

\* C3: the request of a turn is one system message, then role and content of
\* every message of the history before the turn, in order, then the new user
\* message, once, although the history already holds it.
C3_RequestIsSystemPriorHistoryUser ==
    pc = "calling" =>
        /\ Len(requests[1]) = Len(hist_before) + 2
        /\ requests[1][1].role = "system"
        /\ Cardinality({i \in 1..Len(requests[1]) : requests[1][i].role = "system"}) = 1
        /\ \A i \in 1..Len(hist_before) :
              /\ DOMAIN requests[1][i + 1] = {"role", "content"}
              /\ requests[1][i + 1].role = hist_before[i].role
              /\ requests[1][i + 1].content = hist_before[i].content
        /\ Last(requests[1]) = [role |-> "user", content |-> user_input]
        /\ Extends(hist_before, chat_history, "user", user_input)

C3_Witness ==
    /\ pc = "calling"
    /\ Len(hist_before) = 3
    /\ hist_before[1].role = "user"
    /\ hist_before[2].role = "user"
    /\ hist_before[3].role = "assistant"

C5_PromptIsFocusedOrBroad ==
    pc = "calling" =>
        IF Matches # {}
        THEN /\ ContainsLine(PromptInFlight, "Project Name: {}",
                             <<Str(Get(FirstMatch, "name"))>>)
             /\ \A k \in DetailFields :
                   ContainsLine(PromptInFlight, "{}", <<Str(Get(FirstMatch, k))>>)
             /\ SelectSeq(PromptInFlight, IsBullet) = <<>>
             /\ ~ContainsLine(PromptInFlight, "Projects:", <<>>)
        ELSE /\ SelectSeq(PromptInFlight, IsBullet) =
                    [i \in 1..Len(GetProjects(main_portfolio)) |->
                        Line("- {} ({})",
                             <<Str(Get(GetProjects(main_portfolio)[i], "name")),
                               Str(Get(GetProjects(main_portfolio)[i], "type"))>>)]
             /\ ContainsLine(PromptInFlight, "Projects:", <<>>)
             /\ \A i \in 1..Len(GetProjects(main_portfolio)) :
                   \A k \in {"problem", "solution", "outcome"} :
                      ~ContainsLine(PromptInFlight, "{}",
                                    <<Str(Get(GetProjects(main_portfolio)[i], k))>>)
             /\ \A i \in 1..Len(PromptInFlight) :
                   PromptInFlight[i].fmt # "Project Name: {}"

C5_Witness ==
    /\ pc = "calling"
    /\ Matches # {}
    /\ Get(FirstMatch, "name") = "X"
    /\ Len(GetProjects(main_portfolio)) = 2

\* C6: from a new session, after n turns that all succeeded the history has 2n
\* messages whose roles alternate user, assistant, starting with user.
C6_SuccessfulTurnsAlternate ==
    (pc = "idle" /\ turns_failed = 0) =>
        /\ Len(chat_history) = 2 * turns_ok
        /\ \A i \in 1..Len(chat_history) :
              chat_history[i].role = IF i % 2 = 1 THEN "user" ELSE "assistant"

C6_Witness ==
    /\ pc = "idle"
    /\ turns_failed = 0
    /\ turns_ok = 3
    /\ Len(chat_history) = 6
    /\ selected_project = "X"

\* C7: a completion failure leaves the session as it was and the script idle;
\* the next turn after a failure builds on the session's history, and when its
\* completion returns the turn is recorded with the returned reply.
C7_SessionSurvivesCompletionFailure ==
    [][/\ turns_failed' # turns_failed =>
             /\ pc' = "idle"
             /\ run_result' = "exception"
             /\ session_keys' = AllSessionKeys
             /\ UNCHANGED <<session_keys, chat_history, selected_project>>
       /\ (turns_failed > 0 /\ pc = "idle" /\ pc' = "calling") =>
             /\ Extends(chat_history, chat_history', "user", user_input')
             /\ Len(requests') = 1
       /\ (turns_failed > 0 /\ turns_ok' # turns_ok) =>
             /\ pc' = "idle"
             /\ run_result' = "rerun"
             /\ Extends(chat_history, chat_history', "assistant", reply')
             /\ UNCHANGED <<session_keys, selected_project>>
      ]_vars

C7_Witness ==
    /\ pc = "idle"
    /\ turns_failed = 1
    /\ run_result = "rerun"
    /\ reply = "r1"
    /\ Len(chat_history) = 3
    /\ chat_history[1].role = "user"
    /\ chat_history[2].role = "user"
    /\ chat_history[3].role = "assistant"

C9_AbsentDocumentStopsTheRun ==
    [][(pc = "idle" /\ ~doc.exists /\ doc' = doc) =>
          /\ ~TruthyDict(load_portfolio(doc).value)
          /\ load_portfolio(doc).error
          /\ run_result' = "load_error"
          /\ pc' = "idle"
          /\ requests' = <<>>
          /\ UNCHANGED <<session_keys, chat_history, selected_project,
                         turns_ok, turns_failed>>
      ]_vars

C9_Witness ==
    /\ ~doc.exists
    /\ run_result = "load_error"
    /\ session_keys = {}
    /\ chat_history = <<>>
    /\ requests = <<>>

\* C10: every step leaves the history a prefix of the history after it, and a
\* run that only selects a focus leaves the history as it is.
C10_HistoryIsAppendOnly ==
    [][/\ IsPrefix(chat_history, chat_history')
       /\ (pc = "idle" /\ pc' = "idle") => chat_history' = chat_history
      ]_vars

C10_Witness ==
    /\ run_result = "rendered"
    /\ selected_project = "X"
    /\ turns_ok >= 1
    /\ turns_failed >= 1
    /\ Len(chat_history) >= 3

====
